---- MODULE Spec2Model ----
(***************************************************************************)
(* Model of the procurement services (src/services.py) over the relational *)
(* store declared in src/models.py: the catalog (companies, capabilities,  *)
(* company capabilities), the projects with their requirements, the        *)
(* matching query and the prequalification upsert.                         *)
(*                                                                         *)
(* A service function is one atomic action: it runs its statements and its *)
(* single commit with no suspension point (one streamlit script run).  The *)
(* prequalification upsert is also modelled as two steps, lookup and       *)
(* commit, for page runs of several sessions that overlap.                 *)
(* Columns that no modelled statement reads or writes (names, addresses,   *)
(* descriptions, project status, ...) are left out of the rows; a call     *)
(* that the store rejects for a duplicate name changes no row.             *)
(* Time is counted in prequalification calls: each call starts its         *)
(* transaction at a later reading of the clock than the call before it.    *)
(***************************************************************************)
EXTENDS Integers, Sequences, FiniteSets, TLC

VARIABLES
    companies,            \* rows of table "companies"
    capabilities,         \* rows of table "capabilities"
    company_capabilities, \* rows of table "company_capabilities"
    projects,             \* rows of table "projects"
    project_requirements, \* rows of table "project_requirements"
    responses,            \* rows of table "prequalification_responses"
    now,                  \* the store's clock, as read by func.now()
    pending,              \* per session: the upsert between its lookup and its commit
    last                  \* the last matching or prequalification call: its name,
                          \* arguments, the row its lookup loaded (existing) and
                          \* its return value; NoCall after a catalog write

vars == << companies, capabilities, company_capabilities, projects,
           project_requirements, responses, now, pending, last >>

catalog == << companies, capabilities, company_capabilities, projects,
              project_requirements >>

(***************************************************************************)
(* Bounds of the model.                                                    *)
(***************************************************************************)
MaxCompanies == 2
MaxCapabilities == 2
MaxCompanyCapabilities == 3
MaxProjects == 2
MaxRequirements == 2
MaxClock == 3
MaxSessions == 2
MaxPreqProjects == 1
MaxProfiles == 2

(***************************************************************************)
(* Nullable columns and optional arguments: None is the empty set, a value *)
(* x is {x}.  A comparison that involves None is never true, as in SQL.    *)
(***************************************************************************)
None == {}

Some(x) == {x}

Optional(S) == {None} \cup {Some(x) : x \in S}

\* a < b on nullable timestamps
Earlier(a, b) == \E x \in a, y \in b : x < y

(***************************************************************************)
(* Enumerations of src/models.py.                                          *)
(***************************************************************************)
CompanyType == {"developer", "contractor"}

PrequalificationStatus == {"interested", "submitted", "rejected", "shortlisted"}

\* default of the status parameter of create_or_update_prequalification_response
DefaultStatus == "interested"

(***************************************************************************)
(* Input domains of the calls.  Identifiers range one past the largest id  *)
(* a table can hold, so that every call is also made with an id that       *)
(* references no row.                                                      *)
(***************************************************************************)
CompanyIds == 1..(MaxCompanies + 1)

CapabilityIds == 1..(MaxCapabilities + 1)

ProjectIds == 1..(MaxProjects + 1)

PreqProjectIds == 1..(MaxPreqProjects + 1)

NoteTexts == {"ok"}

Numbers == {5}

Ids(table) == {row.id : row \in table}

\* Integer primary key assigned by the store on insert.  Rows are never
\* deleted by any service, so the next key is the row count plus one.
NextId(table) == Cardinality(table) + 1

\* the scoped sessions of src/db.py, one per thread that serves a page run
Sessions == 1..MaxSessions

Idle == [op |-> "idle"]

NoCall == [op |-> "none", args |-> << >>, existing |-> None, raised |-> FALSE, ret |-> None]

Init ==
    /\ companies = {}
    /\ capabilities = {}
    /\ company_capabilities = {}
    /\ projects = {}
    /\ project_requirements = {}
    /\ responses = {}
    /\ now = 0
    /\ pending = [s \in Sessions |-> Idle]
    /\ last = NoCall

(***************************************************************************)
(* Catalog and project stores: src/services.py, lines 24-171.              *)
(* A commit that violates a foreign key raises IntegrityError and leaves   *)
(* the store as it was.                                                    *)
(***************************************************************************)
Returned(op, args, value) ==
    [op |-> op, args |-> args, existing |-> None, raised |-> FALSE, ret |-> value]

Raised(op, args) ==
    [op |-> op, args |-> args, existing |-> None, raised |-> TRUE, ret |-> "IntegrityError"]

create_company(company_type) ==
    /\ Cardinality(companies) < MaxCompanies
    /\ LET company == [id |-> NextId(companies), company_type |-> company_type]
       IN /\ companies' = companies \cup {company}
          /\ last' = NoCall
    /\ UNCHANGED << capabilities, company_capabilities, projects,
                    project_requirements, responses, now, pending >>

create_capability ==
    /\ Cardinality(capabilities) < MaxCapabilities
    /\ LET cap == [id |-> NextId(capabilities)]
       IN /\ capabilities' = capabilities \cup {cap}
          /\ last' = NoCall
    /\ UNCHANGED << companies, company_capabilities, projects,
                    project_requirements, responses, now, pending >>

\* The lookup of lines 86-90: the rows of the pair.
LookupCapability(company_id, capability_id) ==
    {cc \in company_capabilities :
        /\ cc.company_id = company_id
        /\ cc.capability_id = capability_id}

\* The unique constraint of company_capabilities: no row has the pair yet.
uq_company_capability(company_id, capability_id) ==
    \A cc \in company_capabilities :
        ~(cc.company_id = company_id /\ cc.capability_id = capability_id)

\* The foreign keys of a company_capabilities row.
CapabilityForeignKeysHold(company_id, capability_id) ==
    company_id \in Ids(companies) /\ capability_id \in Ids(capabilities)

\* One call of add_capability_to_company after its lookup: the arguments
\* and the row the lookup loaded, if any.
CapabilityRequest(company_id, capability_id, experience_years, typical_project_size_m2, typical_contract_value_million, existing) ==
    [op |-> "add_capability_to_company",
     company_id |-> company_id,
     capability_id |-> capability_id,
     experience_years |-> experience_years,
     typical_project_size_m2 |-> typical_project_size_m2,
     typical_contract_value_million |-> typical_contract_value_million,
     existing |-> existing]

CapabilityArgs(req) ==
    << req.company_id, req.capability_id, req.experience_years,
       req.typical_project_size_m2, req.typical_contract_value_million >>

\* An update that takes None for "leave the stored value".
UpdatedCapabilityKeepingUnset(current, loaded, req) ==
    [current EXCEPT
        !.experience_years =
            IF req.experience_years = None THEN @ ELSE req.experience_years,
        !.typical_project_size_m2 =
            IF req.typical_project_size_m2 = None THEN @ ELSE req.typical_project_size_m2,
        !.typical_contract_value_million =
            IF req.typical_contract_value_million = None THEN @
            ELSE req.typical_contract_value_million]

\* Lines 92-95 on a loaded row: the UPDATE sets the attributes whose new
\* value differs from the loaded one; the others keep what the table has.
UpdatedCapability(current, loaded, req) ==
    [current EXCEPT
        !.experience_years =
            IF req.experience_years = loaded.experience_years THEN @
            ELSE req.experience_years,
        !.typical_project_size_m2 =
            IF req.typical_project_size_m2 = loaded.typical_project_size_m2 THEN @
            ELSE req.typical_project_size_m2,
        !.typical_contract_value_million =
            IF req.typical_contract_value_million = loaded.typical_contract_value_million
            THEN @
            ELSE req.typical_contract_value_million]

\* Lines 99-105: the row of the insert.
NewCapabilityRow(req) ==
    [id |-> NextId(company_capabilities),
     company_id |-> req.company_id,
     capability_id |-> req.capability_id,
     experience_years |-> req.experience_years,
     typical_project_size_m2 |-> req.typical_project_size_m2,
     typical_contract_value_million |-> req.typical_contract_value_million]

\* Lines 91-109 for the call req: the new table and the outcome.
CommitCapability(req) ==
    IF req.existing # None
    THEN LET loaded == CHOOSE r \in req.existing : TRUE
             current == CHOOSE r \in company_capabilities : r.id = loaded.id
             updated == UpdatedCapability(current, loaded, req)
         IN [table |-> (company_capabilities \ {current}) \cup {updated},
             outcome |-> [Returned(req.op, CapabilityArgs(req), updated)
                             EXCEPT !.existing = req.existing]]
    ELSE IF /\ CapabilityForeignKeysHold(req.company_id, req.capability_id)
            /\ uq_company_capability(req.company_id, req.capability_id)
    THEN [table |-> company_capabilities \cup {NewCapabilityRow(req)},
          outcome |-> Returned(req.op, CapabilityArgs(req), NewCapabilityRow(req))]
    ELSE [table |-> company_capabilities,
          outcome |-> Raised(req.op, CapabilityArgs(req))]

\* The rows first() of line 90 can give: None, or one of the rows found.
Loaded(found) == IF found = {} THEN {None} ELSE {Some(r) : r \in found}

\* One call, run without interruption, as a step that fills the catalog: its
\* return value is not kept.
add_capability_to_company(company_id, capability_id, experience_years, typical_project_size_m2, typical_contract_value_million) ==
    /\ \E existing \in Loaded(LookupCapability(company_id, capability_id)) :
          LET done == CommitCapability(
                          CapabilityRequest(company_id, capability_id, experience_years,
                                            typical_project_size_m2,
                                            typical_contract_value_million, existing))
          IN /\ Cardinality(done.table) <= MaxCompanyCapabilities
             /\ company_capabilities' = done.table
             /\ last' = NoCall
    /\ UNCHANGED << companies, capabilities, projects, project_requirements,
                    responses, now, pending >>

\* One call, run without interruption, with its return value or exception
\* kept in last.
add_capability_to_company_returning(company_id, capability_id, experience_years, typical_project_size_m2, typical_contract_value_million) ==
    /\ \A s \in Sessions : pending[s] = Idle
    /\ \E existing \in Loaded(LookupCapability(company_id, capability_id)) :
          LET done == CommitCapability(
                          CapabilityRequest(company_id, capability_id, experience_years,
                                            typical_project_size_m2,
                                            typical_contract_value_million, existing))
          IN /\ Cardinality(done.table) <= MaxProfiles
             /\ company_capabilities' = done.table
             /\ last' = done.outcome
    /\ UNCHANGED << companies, capabilities, projects, project_requirements,
                    responses, now, pending >>

\* The numeric attributes the calls are made with: none of them, or one.
Profiles ==
    {<< None, None, None >>} \cup
    {<< Some(n), None, None >> : n \in Numbers} \cup
    {<< None, Some(n), None >> : n \in Numbers} \cup
    {<< None, None, Some(n) >> : n \in Numbers}

\* The capability profiles: companies, capabilities and the calls that give
\* a company a capability with its three numeric attributes.
NextCaps ==
    \/ \E t \in CompanyType : create_company(t)
    \/ create_capability
    \/ \E c \in CompanyIds, k \in CapabilityIds, a \in Profiles :
           add_capability_to_company_returning(c, k, a[1], a[2], a[3])

SpecCaps == Init /\ [][NextCaps]_vars

create_project(developer_company_id) ==
    /\ IF developer_company_id \in Ids(companies)
       THEN /\ Cardinality(projects) < MaxProjects
            /\ LET project == [id |-> NextId(projects),
                               developer_company_id |-> developer_company_id]
               IN /\ projects' = projects \cup {project}
                  /\ last' = NoCall
       ELSE /\ projects' = projects
            /\ last' = NoCall
    /\ UNCHANGED << companies, capabilities, company_capabilities,
                    project_requirements, responses, now, pending >>

add_project_requirement(project_id, capability_id, min_experience_years, min_contract_value_million) ==
    /\ IF project_id \in Ids(projects) /\ capability_id \in Ids(capabilities)
       THEN /\ Cardinality(project_requirements) < MaxRequirements
            /\ LET req == [id |-> NextId(project_requirements),
                           project_id |-> project_id,
                           capability_id |-> capability_id,
                           min_experience_years |-> min_experience_years,
                           min_contract_value_million |-> min_contract_value_million]
               IN /\ project_requirements' = project_requirements \cup {req}
                  /\ last' = NoCall
       ELSE /\ project_requirements' = project_requirements
            /\ last' = NoCall
    /\ UNCHANGED << companies, capabilities, company_capabilities, projects,
                    responses, now, pending >>

(***************************************************************************)
(* Matching logic: src/services.py, lines 228-277.                         *)
(***************************************************************************)
\* float(matched_count).  A count is far below 2^53, where the conversion
\* of an int to a double is exact; the value keeps its type.
float(n) == [type |-> "float", value |-> n]

\* join_stmt with the second join condition left out.
JoinRowsAnyCapability(project_id) ==
    {j \in companies \X company_capabilities \X project_requirements :
        /\ j[1].id = j[2].company_id
        /\ j[1].company_type = "contractor"
        /\ j[3].project_id = project_id}

\* join_stmt without the filter on company_type.
JoinRowsAnyType(project_id) ==
    {j \in companies \X company_capabilities \X project_requirements :
        /\ j[1].id = j[2].company_id
        /\ j[2].capability_id = j[3].capability_id
        /\ j[3].project_id = project_id}

\* join_stmt with the experience threshold of the requirement compared to
\* the experience of the profile.
JoinRowsThreshold(project_id) ==
    {j \in companies \X company_capabilities \X project_requirements :
        /\ j[1].id = j[2].company_id
        /\ j[2].capability_id = j[3].capability_id
        /\ j[1].company_type = "contractor"
        /\ j[3].project_id = project_id
        /\ \/ j[3].min_experience_years = None
           \/ \E have \in j[2].experience_years, need \in j[3].min_experience_years :
                 have >= need}

\* The joined rows of join_stmt before grouping: one <<c, cc, r>> per
\* combination that satisfies both join conditions and both filters.
JoinRows(project_id) ==
    {j \in companies \X company_capabilities \X project_requirements :
        /\ j[1].id = j[2].company_id
        /\ j[2].capability_id = j[3].capability_id
        /\ j[1].company_type = "contractor"
        /\ j[3].project_id = project_id}

\* count(distinct r.capability_id) in place of count(r.id).
GroupedRowsDistinctCapabilities(project_id) ==
    LET joined == JoinRows(project_id)
    IN {<< c, Cardinality({j[3].capability_id : j \in {k \in joined : k[1].id = c.id}}) >> :
           c \in {j[1] : j \in joined}}

\* The grouped rows filtered to the companies that match every requirement.
GroupedRowsAllRequired(project_id) ==
    LET joined == JoinRows(project_id)
        required == Cardinality({r \in project_requirements : r.project_id = project_id})
    IN {row \in {<< c, Cardinality({j \in joined : j[1].id = c.id}) >> :
                    c \in {j[1] : j \in joined}} : row[2] = required}

\* group_by(c.id) with count(r.id): one <<company, matched_count>> per
\* company that has at least one joined row.
GroupedRows(project_id) ==
    LET joined == JoinRows(project_id)
    IN {<< c, Cardinality({j \in joined : j[1].id = c.id}) >> :
           c \in {j[1] : j \in joined}}

\* The orders in which the store may deliver a set of rows (the statement
\* has no ORDER BY).
Orderings(S) ==
    {f \in [1..Cardinality(S) -> S] : \A i, j \in DOMAIN f : i # j => f[i] # f[j]}

\* The position list.sort(key=score) would choose: reverse=True left out.
InsertAscending(sorted, t) ==
    LET before == {i \in 1..Len(sorted) : sorted[i][2].value <= t[2].value}
        k == Cardinality(before)
    IN SubSeq(sorted, 1, k) \o << t >> \o SubSeq(sorted, k + 1, Len(sorted))

\* Position at which list.sort(key=score, reverse=True) keeps t among the
\* already placed elements: after every element whose score is not lower.
InsertDescending(sorted, t) ==
    LET before == {i \in 1..Len(sorted) : sorted[i][2].value >= t[2].value}
        k == Cardinality(before)
    IN SubSeq(sorted, 1, k) \o << t >> \o SubSeq(sorted, k + 1, Len(sorted))

RECURSIVE SortByScoreDescending(_)
\* results.sort(key=lambda t: t[1], reverse=True): stable, descending.
SortByScoreDescending(results) ==
    IF results = << >> THEN << >>
    ELSE InsertDescending(SortByScoreDescending(SubSeq(results, 1, Len(results) - 1)),
                          results[Len(results)])

\* The loop with a weight of two applied to the score.
BuildResultsWeighted(rows) ==
    [i \in 1..Len(rows) |-> << rows[i][1], float(2 * rows[i][2]), rows[i][2] >>]

\* The loop of lines 270-273 over the rows as delivered.
BuildResults(rows) ==
    [i \in 1..Len(rows) |-> << rows[i][1], float(rows[i][2]), rows[i][2] >>]

\* The matching with a project without requirements accepting every
\* contractor, at score zero, in place of the early return of line 249.
MatchResultsVacuous(project_id) ==
    IF project_id \notin Ids(projects) THEN {<< >>}
    ELSE IF {r \in project_requirements : r.project_id = project_id} = {}
    THEN {BuildResults(rows) :
             rows \in Orderings({<< c, 0 >> :
                         c \in {x \in companies : x.company_type = "contractor"}})}
    ELSE {SortByScoreDescending(BuildResults(rows)) :
             rows \in Orderings(GroupedRows(project_id))}

\* The lists match_contractors_for_project(project_id) can return.
MatchResults(project_id) ==
    IF project_id \notin Ids(projects) THEN {<< >>}
    ELSE IF {r \in project_requirements : r.project_id = project_id} = {} THEN {<< >>}
    ELSE {SortByScoreDescending(BuildResults(rows)) :
             rows \in Orderings(GroupedRows(project_id))}

\* A matching that records an interested response for every contractor it
\* returns and has none yet.
match_contractors_for_project_recording(project_id) ==
    /\ \E results \in MatchResults(project_id) :
          /\ last' = Returned("match_contractors_for_project", << project_id >>, results)
          /\ responses' = responses \cup
                {[id |-> results[i][1].id,
                  project_id |-> project_id,
                  contractor_company_id |-> results[i][1].id,
                  status |-> DefaultStatus,
                  notes |-> None,
                  created_at |-> Some(now),
                  updated_at |-> None] : i \in DOMAIN results}
    /\ UNCHANGED << catalog, now, pending >>

match_contractors_for_project(project_id) ==
    /\ \E results \in MatchResults(project_id) :
           last' = Returned("match_contractors_for_project", << project_id >>, results)
    /\ UNCHANGED << catalog, responses, now, pending >>

NextMatch ==
    \/ \E t \in CompanyType : create_company(t)
    \/ create_capability
    \/ \E c \in CompanyIds, k \in CapabilityIds :
           add_capability_to_company(c, k, None, None, None)
    \/ \E d \in CompanyIds : create_project(d)
    \/ \E p \in ProjectIds, k \in CapabilityIds :
           add_project_requirement(p, k, None, None)
    \/ \E p \in ProjectIds : match_contractors_for_project(p)

SpecMatch == Init /\ [][NextMatch]_vars

(***************************************************************************)
(* Prequalification: src/services.py, lines 183-221.                       *)
(***************************************************************************)
\* The select of lines 190-193 with the two compared columns exchanged.
LookupSwapped(project_id, contractor_company_id) ==
    {r \in responses :
        /\ r.project_id = contractor_company_id
        /\ r.contractor_company_id = project_id}

\* The rows selected by the statement of lines 190-193.
Lookup(project_id, contractor_company_id) ==
    {r \in responses :
        /\ r.project_id = project_id
        /\ r.contractor_company_id = contractor_company_id}

\* The store's table constraint switched off.
uq_project_contractor_response_absent(project_id, contractor_company_id) == TRUE

\* UniqueConstraint uq_project_contractor_response: the store accepts a new
\* row only if no row has its (project_id, contractor_company_id).
uq_project_contractor_response(project_id, contractor_company_id) ==
    ~ \E r \in responses :
        /\ r.project_id = project_id
        /\ r.contractor_company_id = contractor_company_id

\* The response row with no foreign key on contractor_company_id.
ForeignKeysProjectOnly(project_id, contractor_company_id) ==
    project_id \in Ids(projects)

\* The foreign keys of a response row.
ForeignKeysHold(project_id, contractor_company_id) ==
    /\ project_id \in Ids(projects)
    /\ contractor_company_id \in Ids(companies)

\* The unit of work an upsert call carries from its lookup to its commit:
\* the arguments, the row loaded by .first() (None if there is none), and
\* the start time of its transaction, which is what func.now() yields.
Request(project_id, contractor_company_id, status, notes, existing, started) ==
    [op |-> "create_or_update_prequalification_response",
     project_id |-> project_id,
     contractor_company_id |-> contractor_company_id,
     status |-> status,
     notes |-> notes,
     existing |-> existing,
     started |-> started]

\* The update with the notes assignment of line 197 left out.
UpdatedRowStatusOnly(current, loaded, status, notes, started) ==
    IF status = loaded.status THEN current
    ELSE [current EXCEPT !.status = status, !.updated_at = Some(started)]

\* The update with onupdate left out of the column.
UpdatedRowNoTimestamp(current, loaded, status, notes, started) ==
    [current EXCEPT !.status = status, !.notes = notes]

\* The update under a transition table in which a rejected response stays
\* rejected.
UpdatedRowRejectedFinal(current, loaded, status, notes, started) ==
    IF loaded.status = "rejected" \/ (status = loaded.status /\ notes = loaded.notes)
    THEN current
    ELSE [current EXCEPT !.status = status, !.notes = notes,
                         !.updated_at = Some(started)]

\* Lines 196-198 on a loaded row: the flush writes the attributes whose new
\* value differs from the loaded one; if there is one, the UPDATE also sets
\* updated_at (onupdate=func.now()); if there is none, no UPDATE is sent.
UpdatedRow(current, loaded, status, notes, started) ==
    IF status = loaded.status /\ notes = loaded.notes THEN current
    ELSE [current EXCEPT
             !.status = IF status = loaded.status THEN @ ELSE status,
             !.notes = IF notes = loaded.notes THEN @ ELSE notes,
             !.updated_at = Some(started)]

\* The new row built without status=status: the column default applies.
NewRowColumnDefault(req) ==
    [id |-> NextId(responses),
     project_id |-> req.project_id,
     contractor_company_id |-> req.contractor_company_id,
     status |-> "interested",
     notes |-> req.notes,
     created_at |-> Some(req.started),
     updated_at |-> None]

\* Lines 202-207 and the column defaults: created_at has server_default
\* func.now(), updated_at has no default and stays NULL.
NewRow(req) ==
    [id |-> NextId(responses),
     project_id |-> req.project_id,
     contractor_company_id |-> req.contractor_company_id,
     status |-> req.status,
     notes |-> req.notes,
     created_at |-> Some(req.started),
     updated_at |-> None]

UpsertArgs(req) ==
    << req.project_id, req.contractor_company_id, req.status, req.notes >>

\* The unit of work without the update branch: every call inserts.
CommitInsertOnly(req) ==
    IF /\ ForeignKeysHold(req.project_id, req.contractor_company_id)
       /\ uq_project_contractor_response(req.project_id, req.contractor_company_id)
    THEN [table |-> responses \cup {NewRow(req)},
          outcome |-> Returned(req.op, UpsertArgs(req), NewRow(req))]
    ELSE [table |-> responses,
          outcome |-> Raised(req.op, UpsertArgs(req))]

\* The unit of work with an update that is not confined to the loaded row:
\* status and notes go to every response of the project.
CommitProjectWide(req) ==
    IF req.existing # None
    THEN LET loaded == CHOOSE r \in req.existing : TRUE
             current == CHOOSE r \in responses : r.id = loaded.id
             updated == UpdatedRow(current, loaded, req.status, req.notes, req.started)
         IN [table |-> {IF r.project_id = req.project_id
                        THEN UpdatedRow(r, r, req.status, req.notes, req.started)
                        ELSE r : r \in responses},
             outcome |-> [Returned(req.op, UpsertArgs(req), updated)
                             EXCEPT !.existing = req.existing]]
    ELSE IF /\ ForeignKeysHold(req.project_id, req.contractor_company_id)
            /\ uq_project_contractor_response(req.project_id, req.contractor_company_id)
    THEN [table |-> responses \cup {NewRow(req)},
          outcome |-> Returned(req.op, UpsertArgs(req), NewRow(req))]
    ELSE [table |-> responses,
          outcome |-> Raised(req.op, UpsertArgs(req))]

\* Lines 195-211 for the unit of work req: the new table and the outcome.
Commit(req) ==
    IF req.existing # None
    THEN LET loaded == CHOOSE r \in req.existing : TRUE
             current == CHOOSE r \in responses : r.id = loaded.id
             updated == UpdatedRow(current, loaded, req.status, req.notes, req.started)
         IN [table |-> (responses \ {current}) \cup {updated},
             outcome |-> [Returned(req.op, UpsertArgs(req), updated)
                             EXCEPT !.existing = req.existing]]
    ELSE IF /\ ForeignKeysHold(req.project_id, req.contractor_company_id)
            /\ uq_project_contractor_response(req.project_id, req.contractor_company_id)
    THEN [table |-> responses \cup {NewRow(req)},
          outcome |-> Returned(req.op, UpsertArgs(req), NewRow(req))]
    ELSE [table |-> responses,
          outcome |-> Raised(req.op, UpsertArgs(req))]

\* One call, run without interruption.
create_or_update_prequalification_response(project_id, contractor_company_id, status, notes) ==
    /\ now < MaxClock
    /\ \A s \in Sessions : pending[s] = Idle
    /\ now' = now + 1
    /\ \E existing \in IF Lookup(project_id, contractor_company_id) = {}
                       THEN {None}
                       ELSE {Some(r) : r \in Lookup(project_id, contractor_company_id)} :
          LET done == Commit(Request(project_id, contractor_company_id, status, notes,
                                     existing, now + 1))
          IN /\ responses' = done.table
             /\ last' = done.outcome
    /\ UNCHANGED << catalog, pending >>

\* The call with neither status nor notes given: the defaults of lines
\* 187-188 apply.
create_or_update_prequalification_response_defaults(project_id, contractor_company_id) ==
    create_or_update_prequalification_response(project_id, contractor_company_id,
                                               DefaultStatus, None)

\* The lists list_prequalification_responses_for_project can return.
ListResults(project_id) ==
    Orderings({r \in responses : r.project_id = project_id})

list_prequalification_responses_for_project(project_id) ==
    /\ \A s \in Sessions : pending[s] = Idle
    /\ \E rows \in ListResults(project_id) :
          last' = Returned("list_prequalification_responses_for_project",
                           << project_id >>, rows)
    /\ UNCHANGED << catalog, responses, now, pending >>

\* The projects table is kept to MaxPreqProjects rows where the responses vary.
create_preq_project(developer_company_id) ==
    /\ Cardinality(projects) < MaxPreqProjects
    /\ create_project(developer_company_id)

NextPreq ==
    \/ \E t \in CompanyType : create_company(t)
    \/ \E d \in CompanyIds : create_preq_project(d)
    \/ \E p \in PreqProjectIds, c \in CompanyIds, st \in PrequalificationStatus,
          n \in Optional(NoteTexts) :
           create_or_update_prequalification_response(p, c, st, n)
    \/ \E p \in PreqProjectIds, c \in CompanyIds :
           create_or_update_prequalification_response_defaults(p, c)
    \/ \E p \in PreqProjectIds : list_prequalification_responses_for_project(p)

SpecPreq == Init /\ [][NextPreq]_vars

(***************************************************************************)
(* The same call made by page runs of several sessions at once: the lookup *)
(* of lines 190-194 and the commit of lines 195-211 are separate steps,    *)
(* and another session's commit may fall between them.  Each statement     *)
(* reads the committed rows; the flush and COMMIT of one call are one step *)
(* of the store.                                                           *)
(***************************************************************************)
begin_upsert(s, project_id, contractor_company_id, status, notes) ==
    /\ pending[s] = Idle
    /\ now < MaxClock
    /\ now' = now + 1
    /\ \E existing \in IF Lookup(project_id, contractor_company_id) = {}
                       THEN {None}
                       ELSE {Some(r) : r \in Lookup(project_id, contractor_company_id)} :
          pending' = [pending EXCEPT
                         ![s] = Request(project_id, contractor_company_id, status, notes,
                                        existing, now + 1)]
    /\ UNCHANGED << catalog, responses, last >>

commit_upsert(s) ==
    /\ pending[s].op = "create_or_update_prequalification_response"
    /\ LET done == Commit(pending[s])
       IN /\ responses' = done.table
          /\ last' = done.outcome
    /\ pending' = [pending EXCEPT ![s] = Idle]
    /\ UNCHANGED << catalog, now >>

\* the statuses and notes the concurrent calls are made with
ConcurrentStatuses == {"interested", "rejected"}

NextConcurrent ==
    \/ \E t \in CompanyType : create_company(t)
    \/ \E d \in CompanyIds : create_preq_project(d)
    \/ \E s \in Sessions, p \in PreqProjectIds, c \in CompanyIds,
          st \in ConcurrentStatuses, n \in Optional(NoteTexts) :
           begin_upsert(s, p, c, st, n)
    \/ \E s \in Sessions : commit_upsert(s)

SpecConcurrent == Init /\ [][NextConcurrent]_vars

(***************************************************************************)
(* The matching engine's contract.  last is the call made in the current   *)
(* store state: every catalog write clears it.                             *)
(***************************************************************************)
\* The values a profile's three attributes are given together, and the
\* values a requirement's two thresholds are given together.
FullProfiles ==
    {<< None, None, None >>} \cup {<< Some(n), Some(n), Some(n) >> : n \in Numbers}

Thresholds == {<< None, None >>} \cup {<< Some(n), Some(n) >> : n \in Numbers}

\* Lines 86-90 of add_capability_to_company in session s: the lookup; the
\* call then waits for its commit.
begin_add_capability(s, company_id, capability_id, experience_years, typical_project_size_m2, typical_contract_value_million) ==
    /\ pending[s] = Idle
    /\ \E existing \in Loaded(LookupCapability(company_id, capability_id)) :
          pending' = [pending EXCEPT
                         ![s] = CapabilityRequest(company_id, capability_id,
                                    experience_years, typical_project_size_m2,
                                    typical_contract_value_million, existing)]
    /\ UNCHANGED << catalog, responses, now, last >>

\* Lines 91-109 of add_capability_to_company in session s.
commit_add_capability(s) ==
    /\ pending[s].op = "add_capability_to_company"
    /\ LET done == CommitCapability(pending[s])
       IN /\ company_capabilities' = done.table
          /\ last' = done.outcome
    /\ pending' = [pending EXCEPT ![s] = Idle]
    /\ UNCHANGED << companies, capabilities, projects, project_requirements,
                    responses, now >>

\* the pair the overlapping calls are made for
OverlapProjectIds == 1..MaxPreqProjects
OverlapCompanyIds == 1..(MaxCompanies - 1)
OverlapCapabilityIds == 1..(MaxCapabilities - 1)

\* Calls of both upsert-like operations, overlapping in the sessions.
NextOverlap ==
    \/ \E t \in CompanyType : create_company(t)
    \/ create_capability
    \/ \E d \in OverlapCompanyIds : create_preq_project(d)
    \/ \E s \in Sessions, c \in OverlapCompanyIds, k \in OverlapCapabilityIds :
           begin_add_capability(s, c, k, None, None, None)
    \/ \E s \in Sessions : commit_add_capability(s)
    \/ \E s \in Sessions, p \in OverlapProjectIds, c \in OverlapCompanyIds :
           begin_upsert(s, p, c, DefaultStatus, None)
    \/ \E s \in Sessions : commit_upsert(s)

SpecOverlap == Init /\ [][NextOverlap]_vars

\* The matching over one project, with profiles and thresholds that carry
\* numbers or none.
NextMatchNumbers ==
    \/ \E t \in CompanyType : create_company(t)
    \/ create_capability
    \/ \E c \in CompanyIds, k \in CapabilityIds, a \in FullProfiles :
           /\ add_capability_to_company(c, k, a[1], a[2], a[3])
           /\ Cardinality(company_capabilities') <= MaxProfiles
    \/ \E d \in CompanyIds : create_preq_project(d)
    \/ \E p \in PreqProjectIds, k \in CapabilityIds, m \in Thresholds :
           add_project_requirement(p, k, m[1], m[2])
    \/ \E p \in PreqProjectIds : match_contractors_for_project(p)

SpecMatchNumbers == Init /\ [][NextMatchNumbers]_vars

Matched == last.op = "match_contractors_for_project"

MatchedProject == last.args[1]

RequirementsOf(project_id) == {r \in project_requirements : r.project_id = project_id}

\* the capability ids for which company_id has a CompanyCapability row
Holds(company_id) ==
    {cc.capability_id : cc \in {x \in company_capabilities : x.company_id = company_id}}

\* the capability ids referenced by the requirements of project_id
Required(project_id) == {r.capability_id : r \in RequirementsOf(project_id)}

Contractors == {c \in companies : c.company_type = "contractor"}

Positions(company_id) == {i \in DOMAIN last.ret : last.ret[i][1].id = company_id}

\* C1: match_contractors_for_project returns the empty list, and raises
\* nothing, whenever its project id references no project or the project
\* has no requirement rows, whatever the catalog holds.
C1_EmptyWithoutProjectOrRequirements ==
    (Matched /\ (MatchedProject \notin Ids(projects)
                    \/ RequirementsOf(MatchedProject) = {}))
        => (last.ret = << >> /\ ~last.raised)

C1_Witness ==
    /\ Matched
    /\ MatchedProject \in Ids(projects)
    /\ RequirementsOf(MatchedProject) = {}
    /\ \E c \in Contractors : Holds(c.id) # {}
    /\ project_requirements # {}

\* C2: the matched_count of every returned contractor is the number of
\* requirement rows of the project whose capability the contractor holds,
\* duplicate requirement rows for one capability counted one by one.
C2_MatchedCountCountsRequirementRows ==
    Matched =>
        \A i \in DOMAIN last.ret :
            last.ret[i][3] =
                Cardinality({r \in RequirementsOf(MatchedProject) :
                                r.capability_id \in Holds(last.ret[i][1].id)})

C2_Witness ==
    /\ Matched
    /\ \E r1, r2 \in RequirementsOf(MatchedProject) :
          r1.id # r2.id /\ r1.capability_id = r2.capability_id
    /\ \E i \in DOMAIN last.ret : last.ret[i][3] = 2

\* C3: a contractor that holds no capability referenced by a requirement of
\* the project is not in the result.
C3_NoOverlapNotReturned ==
    Matched =>
        \A c \in Contractors :
            (Holds(c.id) \cap Required(MatchedProject) = {}) => Positions(c.id) = {}

C3_Witness ==
    /\ Matched
    /\ last.ret # << >>
    /\ \E c \in Contractors :
          /\ Holds(c.id) # {}
          /\ Holds(c.id) \cap Required(MatchedProject) = {}
          /\ Positions(c.id) = {}

\* C4: for a project with at least one requirement, every contractor that
\* holds a capability referenced by a requirement of the project is in the
\* result exactly once.
C4_EveryCandidateReturnedOnce ==
    (Matched /\ MatchedProject \in Ids(projects) /\ RequirementsOf(MatchedProject) # {})
        => \A c \in Contractors :
              (Holds(c.id) \cap Required(MatchedProject) # {})
                  => Cardinality(Positions(c.id)) = 1

C4_Witness ==
    /\ Matched
    /\ Len(last.ret) = 2
    /\ \E i, j \in DOMAIN last.ret : last.ret[i][3] = 1 /\ last.ret[j][3] = 2

\* C5: the scores of the returned list are non-increasing from the first
\* element to the last.
C5_ScoresNonIncreasing ==
    Matched =>
        \A i, j \in DOMAIN last.ret :
            i < j => last.ret[i][2].value >= last.ret[j][2].value

C5_Witness ==
    /\ Matched
    /\ Len(last.ret) = 2
    /\ last.ret[1][2].value > last.ret[2][2].value
    /\ last.ret[1][1].id > last.ret[2][1].id

\* C6: in every returned tuple the score is the matched_count as a real
\* number, and so at least 1.
C6_ScoreIsMatchedCount ==
    Matched =>
        \A i \in DOMAIN last.ret :
            /\ last.ret[i][2].type = "float"
            /\ last.ret[i][2].value = last.ret[i][3]
            /\ last.ret[i][2].value >= 1

C6_Witness ==
    /\ Matched
    /\ \E i \in DOMAIN last.ret : last.ret[i][2].value = 2 /\ last.ret[i][3] = 2

(***************************************************************************)
(* The prequalification workflow's contract.                               *)
(***************************************************************************)
Upserted == last.op = "create_or_update_prequalification_response"

ResponsesOf(project_id) == {r \in responses : r.project_id = project_id}

\* the rows for one (project, contractor) pair in a table
PairRows(table, project_id, contractor_company_id) ==
    {r \in table :
        /\ r.project_id = project_id
        /\ r.contractor_company_id = contractor_company_id}

\* C7: a call of create_or_update_prequalification_response for a pair that
\* already has a response creates no row: the number of responses of the
\* project stays what it was, and the returned record has the id of the
\* record that was there.
C7_UpsertOfExistingPairKeepsRow ==
    [][\A p \in PreqProjectIds, c \in CompanyIds :
          (/\ PairRows(responses, p, c) # {}
           /\ \E st \in PrequalificationStatus, n \in Optional(NoteTexts) :
                 create_or_update_prequalification_response(p, c, st, n))
          => (/\ Cardinality({r \in responses' : r.project_id = p})
                    = Cardinality(ResponsesOf(p))
              /\ ~last'.raised
              /\ \A e \in PairRows(responses, p, c) : last'.ret.id = e.id)]_vars

\* an update of the second of two responses of one project has returned
C7_Witness ==
    /\ Upserted
    /\ ~last.raised
    /\ last.existing # None
    /\ last.ret.id = 2
    /\ Cardinality(ResponsesOf(last.args[1])) = 2

\* C8: in every state reached by calls of
\* create_or_update_prequalification_response, made one after the other or
\* overlapping, no two rows have the same (project_id, contractor_company_id).
C8_OneResponsePerPair ==
    \A r1, r2 \in responses :
        (r1.project_id = r2.project_id
            /\ r1.contractor_company_id = r2.contractor_company_id) => r1 = r2

\* the store has turned down the insert of a pair that another call
\* committed after this call's lookup
C8_Witness ==
    /\ Upserted
    /\ last.raised
    /\ ForeignKeysHold(last.args[1], last.args[2])
    /\ Cardinality(PairRows(responses, last.args[1], last.args[2])) = 1
    /\ Cardinality(responses) = 2

\* C9: right after a successful create_or_update_prequalification_response(
\* p, c, s, n), every list list_prequalification_responses_for_project(p)
\* can return has exactly one entry for contractor c, with status s and
\* notes n, whether or not the pair had a response before.
C9_UpsertThenListRoundTrip ==
    (Upserted /\ ~last.raised) =>
        \A rows \in ListResults(last.args[1]) :
            /\ Cardinality({i \in DOMAIN rows :
                               rows[i].contractor_company_id = last.args[2]}) = 1
            /\ \A i \in DOMAIN rows :
                  rows[i].contractor_company_id = last.args[2]
                      => (rows[i].status = last.args[3] /\ rows[i].notes = last.args[4])

\* the call overwrote the notes "ok" of an existing response by none, in a
\* project with a second response
C9_Witness ==
    /\ Upserted
    /\ ~last.raised
    /\ \E e \in last.existing : e.notes = Some("ok") /\ e.status = "rejected"
    /\ last.args[4] = None
    /\ last.args[3] = "shortlisted"
    /\ Cardinality(ResponsesOf(last.args[1])) = 2

\* the second of two consecutive successful calls for one pair, with a
\* status other than the first call's
SecondCall(p, c, st, n) ==
    /\ Upserted
    /\ ~last.raised
    /\ last.args[1] = p
    /\ last.args[2] = c
    /\ last.args[3] # st
    /\ create_or_update_prequalification_response(p, c, st, n)

C11_ExistingResponseOverwrittenAndRefreshed ==
    [][\A p \in PreqProjectIds, c \in CompanyIds, st \in PrequalificationStatus,
          n \in Optional(NoteTexts) :
          (/\ PairRows(responses, p, c) # {}
           /\ create_or_update_prequalification_response(p, c, st, n))
          => \A r \in PairRows(responses', p, c) :
                /\ r.status = st
                /\ r.notes = n
                /\ r.updated_at = Some(now')]_vars

\* C12: the status a response has does not restrict the status an upsert
\* gives it: a call that finds a response in any status s1 succeeds with
\* any status s2 and leaves the response in s2.
C12_AnyStatusFollowsAnyStatus ==
    (Upserted /\ last.existing # None) =>
        /\ ~last.raised
        /\ PairRows(responses, last.args[1], last.args[2]) # {}
        /\ \A r \in PairRows(responses, last.args[1], last.args[2]) :
              r.status = last.args[3]

\* a rejected response has been shortlisted
C12_Witness ==
    /\ Upserted
    /\ ~last.raised
    /\ \E e \in last.existing : e.status = "rejected"
    /\ last.args[3] = "shortlisted"
    /\ last.ret.status = "shortlisted"

\* the step creates exactly one row, for (p, c) with status st and notes n,
\* and returns it
CreatesOne(p, c, st, n) ==
    /\ ~last'.raised
    /\ responses \subseteq responses'
    /\ Cardinality(responses' \ responses) = 1
    /\ \A r \in responses' \ responses :
          /\ r.project_id = p
          /\ r.contractor_company_id = c
          /\ r.status = st
          /\ r.notes = n
          /\ last'.ret = r

\* C13: a call for a pair of existing project and company that has no
\* response creates exactly one record, with the given status and notes;
\* the status is interested when the caller gives none.
C13_AbsentPairCreatesOneRecord ==
    [][\A p \in PreqProjectIds, c \in CompanyIds :
          (/\ PairRows(responses, p, c) = {}
           /\ p \in Ids(projects)
           /\ c \in Ids(companies))
          => /\ \A st \in PrequalificationStatus, n \in Optional(NoteTexts) :
                   create_or_update_prequalification_response(p, c, st, n)
                       => CreatesOne(p, c, st, n)
             /\ create_or_update_prequalification_response_defaults(p, c)
                   => CreatesOne(p, c, "interested", None)]_vars

\* a second record has been created, submitted and with notes
C13_Witness ==
    /\ Upserted
    /\ ~last.raised
    /\ last.existing = None
    /\ last.ret.id = 2
    /\ last.ret.status = "submitted"
    /\ last.ret.notes = Some("ok")
    /\ last.ret.updated_at = None
    /\ Cardinality(responses) = 2

\* C17: a call naming a project or a contractor that does not exist is not
\* refused by the function itself: it goes to the store, which rejects the
\* insert on the foreign key; the failure reaches the caller and no
\* response row is added or changed.
C17_MissingReferenceRejectedByStore ==
    [][\A p \in PreqProjectIds, c \in CompanyIds, st \in PrequalificationStatus,
          n \in Optional(NoteTexts) :
          (/\ p \notin Ids(projects) \/ c \notin Ids(companies)
           /\ create_or_update_prequalification_response(p, c, st, n))
          => /\ last'.raised
             /\ last'.ret = "IntegrityError"
             /\ last'.existing = None
             /\ responses' = responses]_vars

\* a call for an existing project and a missing contractor has failed while
\* the project has a response
C17_Witness ==
    /\ Upserted
    /\ last.raised
    /\ last.args[1] \in Ids(projects)
    /\ last.args[2] \notin Ids(companies)
    /\ ResponsesOf(last.args[1]) # {}

\* C14: matching only reads: a call of match_contractors_for_project, for
\* the id of a project or for an id that references none, leaves every
\* table as it was.
C14_MatchingIsReadOnly ==
    [][\A p \in ProjectIds :
          match_contractors_for_project(p)
              => UNCHANGED << companies, capabilities, company_capabilities,
                              projects, project_requirements, responses >>]_vars

\* a matching has returned contractors from a catalog with rows in every
\* table it reads
C14_Witness ==
    /\ Matched
    /\ last.ret # << >>
    /\ companies # {} /\ capabilities # {} /\ company_capabilities # {}
    /\ projects # {} /\ project_requirements # {}
    /\ \E p \in ProjectIds : p \notin Ids(projects)

\* C19: every company in the result is of type contractor.
C19_OnlyContractorsReturned ==
    Matched =>
        \A i \in DOMAIN last.ret : last.ret[i][1].company_type = "contractor"

\* a developer holds every capability the project requires and is not in
\* the non-empty result
C19_Witness ==
    /\ Matched
    /\ last.ret # << >>
    /\ \E d \in companies :
          /\ d.company_type = "developer"
          /\ Required(MatchedProject) \subseteq Holds(d.id)
          /\ Positions(d.id) = {}

\* C15: when two calls for one pair both look the pair up before either
\* commits, the commit of the second one, which found no row and now meets
\* the row of the first, leaves exactly one row for the pair: its insert
\* fails on the unique constraint and changes nothing, or its status and
\* notes are applied to the row of the first.
C15_SecondInsertFailsOrUpdates ==
    [][\A s \in Sessions :
          (/\ pending[s] # Idle
           /\ pending[s].existing = None
           /\ PairRows(responses, pending[s].project_id,
                       pending[s].contractor_company_id) # {}
           /\ commit_upsert(s))
          => LET p == pending[s].project_id
                 c == pending[s].contractor_company_id
             IN /\ Cardinality(PairRows(responses', p, c)) = 1
                /\ \/ /\ last'.raised
                      /\ last'.ret = "IntegrityError"
                      /\ responses' = responses
                   \/ /\ ~last'.raised
                      /\ Cardinality(responses') = Cardinality(responses)
                      /\ \A r \in PairRows(responses', p, c) :
                            r.status = pending[s].status
                               /\ r.notes = pending[s].notes]_vars

\* the second of two overlapping calls has failed, and the row of the pair
\* carries the status and notes of the first instead of its own
C15_Witness ==
    /\ Upserted
    /\ last.raised
    /\ last.existing = None
    /\ ForeignKeysHold(last.args[1], last.args[2])
    /\ \E r \in PairRows(responses, last.args[1], last.args[2]) :
          /\ r.status # last.args[3]
          /\ r.notes # last.args[4]
          /\ r.updated_at = None

\* C18: calls of add_capability_to_company, one after the other, leave at
\* most one row per (company_id, capability_id); a call for a pair that
\* has a row keeps that row's id and every other row, and sets the row's
\* three numeric attributes to the values of the call, a None included.
C18_OneProfilePerPairReplacedInPlace ==
    [][\A c \in CompanyIds, k \in CapabilityIds, a \in Profiles :
          add_capability_to_company_returning(c, k, a[1], a[2], a[3])
          => /\ \A r1, r2 \in company_capabilities' :
                   (r1.company_id = r2.company_id
                       /\ r1.capability_id = r2.capability_id) => r1 = r2
             /\ \A old \in LookupCapability(c, k) :
                   LET new == [id |-> old.id,
                               company_id |-> c,
                               capability_id |-> k,
                               experience_years |-> a[1],
                               typical_project_size_m2 |-> a[2],
                               typical_contract_value_million |-> a[3]]
                   IN /\ company_capabilities' =
                            (company_capabilities \ {old}) \cup {new}
                      /\ ~last'.raised
                      /\ last'.ret = new]_vars

\* the first of two rows has been added again: its experience_years went
\* from a value to None, its typical_project_size_m2 from None to a value
C18_Witness ==
    /\ last.op = "add_capability_to_company"
    /\ ~last.raised
    /\ \E e \in last.existing :
          /\ e.id = 1
          /\ e.experience_years # None
          /\ e.typical_project_size_m2 = None
    /\ last.ret.id = 1
    /\ last.ret.experience_years = None
    /\ last.ret.typical_project_size_m2 # None
    /\ last.ret \in company_capabilities
    /\ Cardinality(company_capabilities) = 2

\* the tuples of a matching of project_id as the id columns alone give
\* them: no numeric attribute of a profile or a requirement is read
PresenceTuples(project_id) ==
    IF project_id \notin Ids(projects) THEN {}
    ELSE {t \in {<< c, float(n), n >> : c \in Contractors, n \in 1..MaxRequirements} :
             t[3] = Cardinality(
                        {r.id : r \in {x \in project_requirements :
                            /\ x.project_id = project_id
                            /\ \E cc \in company_capabilities :
                                  /\ cc.company_id = t[1].id
                                  /\ cc.capability_id = x.capability_id}})}

\* C20: the set of (contractor, score, matched_count) tuples a matching
\* returns is determined by the id columns of the store: states that differ
\* only in the thresholds of requirements or in the numeric attributes of
\* profiles give the same set, for every project id.
C20_ResultIndependentOfNumbers ==
    Matched => {last.ret[i] : i \in DOMAIN last.ret} = PresenceTuples(MatchedProject)

\* a contractor whose profile has no numbers is returned for a requirement
\* with thresholds, next to a requirement without
C20_Witness ==
    /\ Matched
    /\ \E i \in DOMAIN last.ret :
          /\ last.ret[i][3] = 2
          /\ \E cc \in company_capabilities, r1, r2 \in RequirementsOf(MatchedProject) :
                /\ cc.company_id = last.ret[i][1].id
                /\ cc.capability_id = r1.capability_id
                /\ cc.experience_years = None
                /\ r1.min_experience_years # None
                /\ r2.min_experience_years = None
    /\ \E cc \in company_capabilities : cc.typical_contract_value_million # None

\* the rows of company_capabilities for a pair
PairProfiles(table, company_id, capability_id) ==
    {cc \in table : cc.company_id = company_id /\ cc.capability_id = capability_id}

\* the call ended in a failure although what its row references exists: a
\* failure of the unique constraint
UniquenessFailure(call) ==
    /\ call.raised
    /\ \/ /\ call.op = "add_capability_to_company"
          /\ CapabilityForeignKeysHold(call.args[1], call.args[2])
       \/ /\ call.op = "create_or_update_prequalification_response"
          /\ ForeignKeysHold(call.args[1], call.args[2])

\* C16 as stated: no call of add_capability_to_company or of
\* create_or_update_prequalification_response ends in a failure of a unique
\* constraint, whatever calls came before it or overlap it.
C16_NoCallEndsInUniquenessFailure == ~UniquenessFailure(last)

\* C16, amended: a call of either operation whose lookup still holds when
\* it commits (no other call has committed a row for its pair since) does
\* not end in a failure of a unique constraint: it updates the row it
\* found, or inserts the first row of the pair.
C16_CurrentLookupNeverFailsOnUniqueness ==
    [][\A s \in Sessions :
          \/ /\ pending[s].op = "add_capability_to_company"
             /\ pending[s].existing =
                    PairProfiles(company_capabilities, pending[s].company_id,
                                 pending[s].capability_id)
             /\ commit_add_capability(s)
          \/ /\ pending[s].op = "create_or_update_prequalification_response"
             /\ pending[s].existing =
                    PairRows(responses, pending[s].project_id,
                             pending[s].contractor_company_id)
             /\ commit_upsert(s)
          => ~UniquenessFailure(last')]_vars

\* a second call for a pair of each table has gone through the update path:
\* the capability call has just returned the row it found, next to the
\* response of the same company
C16_Witness ==
    /\ last.op = "add_capability_to_company"
    /\ ~last.raised
    /\ last.existing # None
    /\ last.ret \in company_capabilities
    /\ \E r \in responses : r.contractor_company_id = last.args[1]
    /\ \A s \in Sessions : pending[s] = Idle

\* C21: a successful create_or_update_prequalification_response(p, c, ...)
\* touches the response of (p, c) alone: the catalog is as before, every
\* response of another pair is in the table unchanged and none is added
\* for another pair, no response is removed, and a response that (p, c)
\* already had keeps its id and created_at.
C21_UpsertTouchesItsPairOnly ==
    [][\A p \in PreqProjectIds, c \in CompanyIds, st \in PrequalificationStatus,
          n \in Optional(NoteTexts) :
          (create_or_update_prequalification_response(p, c, st, n) /\ ~last'.raised)
          => /\ UNCHANGED catalog
             /\ responses \ PairRows(responses, p, c)
                   = responses' \ PairRows(responses', p, c)
             /\ \A old \in responses : \E new \in responses' : new.id = old.id
             /\ \A old \in PairRows(responses, p, c) :
                   \E new \in PairRows(responses', p, c) :
                      new.id = old.id /\ new.created_at = old.created_at]_vars

\* a call has changed the status of the response of its pair while the
\* project has a response of another contractor
C21_Witness ==
    /\ Upserted
    /\ ~last.raised
    /\ \E e \in last.existing :
          /\ e.status # last.ret.status
          /\ e.id = last.ret.id
          /\ e.created_at = last.ret.created_at
    /\ last.ret \in responses
    /\ \E r \in ResponsesOf(last.args[1]) :
          /\ r.contractor_company_id # last.args[2]
          /\ r.status # last.ret.status

====
